---- MODULE Spec2Model ----
(***************************************************************************)
(* The task manager API of src/app.js: an in-memory array of tasks loaded  *)
(* from task.json and the six Express handlers over it.  Each handler runs *)
(* to completion on Node's single thread, so each is one atomic action.    *)
(*                                                                         *)
(* JavaScript values are tagged records, strings are sequences of          *)
(* one-character strings, so that typeof, truthiness, trim(),              *)
(* toLowerCase(), parseInt() and === are computed as the code computes     *)
(* them.                                                                   *)
(***************************************************************************)
EXTENDS Integers, Sequences, FiniteSets, TLC

VARIABLES tasks, clock, issued, resp

vars == <<tasks, clock, issued, resp>>

(***************************************************************************)
(* Bounds of the model.                                                    *)
(***************************************************************************)
MaxTasks == 2
MaxId == 3
MaxClock == 2

(***************************************************************************)
(* JavaScript values.                                                      *)
(***************************************************************************)
Undefined == [t |-> "undefined", s |-> <<>>, b |-> FALSE, n |-> 0]
Null == [t |-> "object", s |-> <<>>, b |-> FALSE, n |-> 0]
Str(cs) == [t |-> "string", s |-> cs, b |-> FALSE, n |-> 0]
Bool(x) == [t |-> "boolean", s |-> <<>>, b |-> x, n |-> 0]
Num(k) == [t |-> "number", s |-> <<>>, b |-> FALSE, n |-> k]

TypeOf(v) == v.t

\* ToBoolean, as used by !x and x || y
Truthy(v) ==
  CASE v.t = "string" -> Len(v.s) > 0
    [] v.t = "boolean" -> v.b
    [] v.t = "number" -> v.n # 0
    [] OTHER -> FALSE

\* x || y
OrElse(x, y) == IF Truthy(x) THEN x ELSE y

IsSpace(c) == c = " "

RECURSIVE TrimStart(_)
TrimStart(cs) ==
  IF cs # <<>> /\ IsSpace(Head(cs)) THEN TrimStart(Tail(cs)) ELSE cs

RECURSIVE TrimEnd(_)
TrimEnd(cs) ==
  IF cs # <<>> /\ IsSpace(cs[Len(cs)])
  THEN TrimEnd(SubSeq(cs, 1, Len(cs) - 1))
  ELSE cs

\* String.prototype.trim
Trim(cs) == TrimEnd(TrimStart(cs))

UpperChars == <<"A", "B", "D", "E", "G", "H", "I", "L", "M", "O", "U", "W">>
LowerChars == <<"a", "b", "d", "e", "g", "h", "i", "l", "m", "o", "u", "w">>

LowerChar(c) ==
  IF \E i \in DOMAIN UpperChars : UpperChars[i] = c
  THEN LowerChars[CHOOSE i \in DOMAIN UpperChars : UpperChars[i] = c]
  ELSE c

\* String.prototype.toLowerCase
ToLowerCase(cs) == [i \in DOMAIN cs |-> LowerChar(cs[i])]

DigitChars == <<"0", "1", "2", "3", "4", "5", "6", "7", "8", "9">>

IsDigit(c) == \E i \in DOMAIN DigitChars : DigitChars[i] = c

DigitVal(c) == (CHOOSE i \in DOMAIN DigitChars : DigitChars[i] = c) - 1

\* Number.prototype.toString of a non-negative integer
RECURSIVE NumToString(_)
NumToString(k) ==
  IF k < 10
  THEN <<DigitChars[k + 1]>>
  ELSE Append(NumToString(k \div 10), DigitChars[(k % 10) + 1])

\* NaN, for the results of parseInt and of Date parsing (both are >= 0 here)
NaN == -1

RECURSIVE LeadingDigits(_, _)
LeadingDigits(cs, acc) ==
  IF cs # <<>> /\ IsDigit(Head(cs))
  THEN LeadingDigits(Tail(cs), acc * 10 + DigitVal(Head(cs)))
  ELSE acc

\* parseInt(string): skips leading white space, reads the leading digits and
\* ignores what follows them; NaN when there is no leading digit
ParseInt(cs) ==
  LET body == TrimStart(cs)
  IN IF body # <<>> /\ IsDigit(Head(body)) THEN LeadingDigits(body, 0) ELSE NaN

\* new Date(ms).toISOString(): the instant ms written as a string.  The
\* calendar fields are abstracted to the decimal count of milliseconds
\* followed by the zone designator Z.
ToISOString(ms) == Append(NumToString(ms), "Z")

\* new Date(string).getTime(): the instant of a well-formed string, NaN
\* (Invalid Date) otherwise
DateParse(cs) ==
  IF /\ Len(cs) >= 2
     /\ cs[Len(cs)] = "Z"
     /\ \A i \in 1..(Len(cs) - 1) : IsDigit(cs[i])
  THEN LeadingDigits(cs, 0)
  ELSE NaN

\* new Date(value) for a string or a number
NewDate(v) ==
  CASE v.t = "string" -> DateParse(v.s)
    [] v.t = "number" -> v.n
    [] OTHER -> NaN

S_low == <<"l", "o", "w">>
S_medium == <<"m", "e", "d", "i", "u", "m">>
S_high == <<"h", "i", "g", "h">>
S_HIGH == <<"H", "I", "G", "H">>
S_urgent == <<"u", "r", "g", "e", "n", "t">>
S_true == <<"t", "r", "u", "e">>
S_false == <<"f", "a", "l", "s", "e">>
S_oldest == <<"o", "l", "d", "e", "s", "t">>
S_newest == <<"n", "e", "w", "e", "s", "t">>

validPriorities == <<Str(S_low), Str(S_medium), Str(S_high)>>

\* Array.prototype.includes on validPriorities
Includes(arr, v) == \E i \in DOMAIN arr : arr[i] = v

(***************************************************************************)
(* validateTask                                                            *)
(***************************************************************************)
MsgTitle == "title is required and must be a non-empty string"
MsgDescription == "description is required and must be a non-empty string"
MsgCompleted == "completed is required and must be a boolean"
MsgPriority == "priority must be one of: low, medium, high"
MsgTitleLenient == "title must be a non-empty string"
MsgDescriptionLenient == "description must be a non-empty string"
MsgCompletedLenient == "completed must be a boolean"

Invalid(m) == [valid |-> FALSE, message |-> m]
Valid == [valid |-> TRUE, message |-> ""]

\* typeof x !== 'string' || x.trim().length === 0
NotNonEmptyString(v) == TypeOf(v) # "string" \/ Len(Trim(v.s)) = 0

priorityCheck(task) ==
  IF task.priority # Undefined /\ ~Includes(validPriorities, task.priority)
  THEN Invalid(MsgPriority)
  ELSE Valid

\* Variant of validateTask: description checked before title
validateTaskDescriptionFirst(task, requireAllFields) ==
  IF ~Truthy(task.description) \/ NotNonEmptyString(task.description)
  THEN Invalid(MsgDescription)
  ELSE IF ~Truthy(task.title) \/ NotNonEmptyString(task.title)
  THEN Invalid(MsgTitle)
  ELSE IF task.completed = Undefined \/ TypeOf(task.completed) # "boolean"
  THEN Invalid(MsgCompleted)
  ELSE priorityCheck(task)

validateTask(task, requireAllFields) ==
  IF requireAllFields
  THEN IF ~Truthy(task.title) \/ NotNonEmptyString(task.title)
       THEN Invalid(MsgTitle)
       ELSE IF ~Truthy(task.description) \/ NotNonEmptyString(task.description)
       THEN Invalid(MsgDescription)
       ELSE IF task.completed = Undefined \/ TypeOf(task.completed) # "boolean"
       THEN Invalid(MsgCompleted)
       ELSE priorityCheck(task)
  ELSE IF task.title # Undefined /\ NotNonEmptyString(task.title)
       THEN Invalid(MsgTitleLenient)
       ELSE IF task.description # Undefined /\ NotNonEmptyString(task.description)
       THEN Invalid(MsgDescriptionLenient)
       ELSE IF task.completed # Undefined /\ TypeOf(task.completed) # "boolean"
       THEN Invalid(MsgCompletedLenient)
       ELSE priorityCheck(task)

(***************************************************************************)
(* Startup: the tasks array loaded from task.json                          *)
(***************************************************************************)
S_A == <<"A">>
S_padB == <<" ", "B">>
S_D == <<"D">>
S_E == <<"E">>
S_blank == <<" ">>

\* A record of task.json; priority and createdAt may be absent (Undefined)
RawTask(id, completed, priority, createdAt) ==
  [id |-> id, title |-> Str(S_A), description |-> Str(S_D),
   completed |-> Bool(completed), priority |-> priority, createdAt |-> createdAt]

FilePriorities == {Undefined, Str(S_urgent)}
FileCreatedAts == {Undefined, Str(ToISOString(2))}

\* The contents task.json may have: unreadable or unparsable, one record,
\* or two records whose ids are distinct and not in ascending order
Files ==
  {[readable |-> FALSE, tasks |-> <<>>]}
  \cup {[readable |-> TRUE, tasks |-> <<RawTask(1, FALSE, p, c)>>] :
          p \in FilePriorities, c \in FileCreatedAts}
  \cup {[readable |-> TRUE,
         tasks |-> <<RawTask(2, TRUE, p, Str(ToISOString(1))),
                     RawTask(1, FALSE, Undefined, c)>>] :
          p \in FilePriorities, c \in FileCreatedAts}

\* lines 11-25: tasks.map(task => ({...task, priority: task.priority ||
\* 'medium', createdAt: task.createdAt || new Date().toISOString()})), and
\* tasks = [] when reading or parsing throws
LoadTasks(file, now) ==
  IF ~file.readable
  THEN <<>>
  ELSE [i \in DOMAIN file.tasks |->
          [file.tasks[i] EXCEPT
             !.priority = OrElse(file.tasks[i].priority, Str(S_medium)),
             !.createdAt = OrElse(file.tasks[i].createdAt, Str(ToISOString(now)))]]

(***************************************************************************)
(* Helpers over the tasks array                                            *)
(***************************************************************************)
Ids(store) == {store[i].id : i \in DOMAIN store}

MaxOf(S) == CHOOSE m \in S : \A x \in S : x <= m

\* tasks.findIndex(t => t.id === id); 0 stands for -1 (sequences start at 1)
FindIndex(store, id) ==
  IF \E i \in DOMAIN store : store[i].id = id /\ id # NaN
  THEN CHOOSE i \in DOMAIN store :
         /\ store[i].id = id
         /\ \A j \in DOMAIN store : store[j].id = id => i <= j
  ELSE 0

NoTask ==
  [id |-> 0, title |-> Undefined, description |-> Undefined,
   completed |-> Undefined, priority |-> Undefined, createdAt |-> Undefined]

\* Variant of Splice: tasks.splice(index), which removes to the end
SpliceToEnd(store, index) == SubSeq(store, 1, index - 1)

\* tasks.splice(index, 1)
Splice(store, index) ==
  SubSeq(store, 1, index - 1) \o SubSeq(store, index + 1, Len(store))

Filter(store, Test(_)) == SelectSeq(store, Test)

Reply(store, status, error, task, list) ==
  [tasks |-> store, status |-> status, error |-> error, task |-> task, list |-> list]

MsgNotFound == "Task not found"
MsgInvalidLevel == "Invalid priority level. Must be one of: low, medium, high"

(***************************************************************************)
(* GET /tasks                                                              *)
(***************************************************************************)
\* new Date(a.createdAt || 0)
DateOf(task) == NewDate(OrElse(task.createdAt, Num(0)))

Sign(x) == IF x > 0 THEN 1 ELSE IF x < 0 THEN -1 ELSE 0

\* Variant of Compare: the sort parameter ignored
CompareNewestFirst(a, b, sort) ==
  LET dateA == NewDate(OrElse(a.createdAt, Num(0)))
      dateB == NewDate(OrElse(b.createdAt, Num(0)))
  IN IF dateA = NaN \/ dateB = NaN
     THEN 0
     ELSE IF dateB > dateA THEN 1 ELSE IF dateB < dateA THEN -1 ELSE 0

\* lines 73-81: the comparator; a NaN result is taken as +0 by sort
Compare(a, b, sort) ==
  LET dateA == DateOf(a)
      dateB == DateOf(b)
  IN IF dateA = NaN \/ dateB = NaN
     THEN 0
     ELSE IF sort = Str(S_oldest)
          THEN Sign(dateA - dateB)
          ELSE Sign(dateB - dateA)

RECURSIVE InsertSorted(_, _, _)
InsertSorted(sorted, x, sort) ==
  IF sorted = <<>>
  THEN <<x>>
  ELSE LET last == sorted[Len(sorted)]
           front == SubSeq(sorted, 1, Len(sorted) - 1)
       IN IF Compare(last, x, sort) > 0
          THEN Append(InsertSorted(front, x, sort), last)
          ELSE Append(sorted, x)

\* Array.prototype.sort with the comparator: a stable sort
RECURSIVE SortTasks(_, _)
SortTasks(list, sort) ==
  IF list = <<>>
  THEN <<>>
  ELSE InsertSorted(SortTasks(SubSeq(list, 1, Len(list) - 1), sort),
                    list[Len(list)], sort)

\* Arrays are objects: a heap is the sequence of the arrays allocated so far
\* and a reference is an index into it.  The handler runs on the heap
\* <<tasks>>, where reference 1 is the module's tasks array.

\* Variant of SpreadTasks: filteredTasks = tasks, the same array
AliasTasks(heap) == [heap |-> heap, ref |-> 1]

\* line 64, [...tasks]: a new array holding the elements of tasks
SpreadTasks(heap) == [heap |-> Append(heap, heap[1]), ref |-> Len(heap) + 1]

\* lines 67-70: filter allocates the array it returns; without the query
\* parameter filteredTasks stays what it was
CompletedFilter(heap, ref, completed) ==
  IF completed # Undefined
  THEN LET completedFilter == Bool(completed = Str(S_true))
           Test(task) == task.completed = completedFilter
       IN [heap |-> Append(heap, Filter(heap[ref], Test)), ref |-> Len(heap) + 1]
  ELSE [heap |-> heap, ref |-> ref]

\* line 73: sort reorders the array in place
SortInPlace(heap, ref, sort) == [heap EXCEPT ![ref] = SortTasks(heap[ref], sort)]

GetTasks(store, completed, sort) ==
  LET copied == SpreadTasks(<<store>>)
      filtered == CompletedFilter(copied.heap, copied.ref, completed)
      sorted == SortInPlace(filtered.heap, filtered.ref, sort)
  IN Reply(sorted[1], 200, "", NoTask, sorted[filtered.ref])

(***************************************************************************)
(* GET /tasks/priority/:level                                              *)
(***************************************************************************)
GetTasksByPriority(store, levelParam) ==
  LET level == Str(ToLowerCase(levelParam))
      Test(task) == ToLowerCase(OrElse(task.priority, Str(S_medium)).s) = level.s
  IN IF ~Includes(validPriorities, level)
     THEN Reply(store, 400, MsgInvalidLevel, NoTask, <<>>)
     ELSE Reply(store, 200, "", NoTask, Filter(store, Test))

(***************************************************************************)
(* GET /tasks/:id                                                          *)
(***************************************************************************)
GetTask(store, idParam) ==
  LET id == ParseInt(idParam)
      index == FindIndex(store, id)
  IN IF index = 0
     THEN Reply(store, 404, MsgNotFound, NoTask, <<>>)
     ELSE Reply(store, 200, "", store[index], <<>>)

(***************************************************************************)
(* POST /tasks                                                             *)
(***************************************************************************)
\* Variant of NextId: the length of the array plus one
NextIdByLength(store) == Len(store) + 1

\* line 120
NextId(store) == (IF Len(store) > 0 THEN MaxOf(Ids(store)) ELSE 0) + 1

\* Variant of NewTask: priority taken from the body without the default
NewTaskNoDefault(store, body, now) ==
  [id |-> (IF Len(store) > 0 THEN MaxOf(Ids(store)) ELSE 0) + 1,
   title |-> body.title,
   description |-> body.description,
   completed |-> body.completed,
   priority |-> body.priority,
   createdAt |-> Str(ToISOString(now))]

\* lines 121-128
NewTask(store, body, now) ==
  [id |-> NextId(store),
   title |-> body.title,
   description |-> body.description,
   completed |-> body.completed,
   priority |-> OrElse(body.priority, Str(S_medium)),
   createdAt |-> Str(ToISOString(now))]

PostTask(store, body, now) ==
  LET validation == validateTask(body, TRUE)
      newTask == NewTask(store, body, now)
  IN IF ~validation.valid
     THEN Reply(store, 400, validation.message, NoTask, <<>>)
     ELSE Reply(Append(store, newTask), 201, "", newTask, <<>>)

(***************************************************************************)
(* PUT /tasks/:id                                                          *)
(***************************************************************************)
\* Variant of UpdatedTask: priority defaulted as on creation
UpdatedTaskDefaultPriority(existingTask, id, body, now) ==
  [id |-> id,
   title |-> body.title,
   description |-> body.description,
   completed |-> body.completed,
   priority |-> OrElse(body.priority, Str(S_medium)),
   createdAt |-> OrElse(existingTask.createdAt, Str(ToISOString(now)))]

\* lines 152-159
UpdatedTask(existingTask, id, body, now) ==
  [id |-> id,
   title |-> body.title,
   description |-> body.description,
   completed |-> body.completed,
   priority |-> OrElse(body.priority, OrElse(existingTask.priority, Str(S_medium))),
   createdAt |-> OrElse(existingTask.createdAt, Str(ToISOString(now)))]

\* Variant of PutTask: the body validated before the task is looked up
PutTaskValidateFirst(store, idParam, body, now) ==
  LET id == ParseInt(idParam)
      taskIndex == FindIndex(store, id)
      validation == validateTask(body, TRUE)
  IN IF ~validation.valid
     THEN Reply(store, 400, validation.message, NoTask, <<>>)
     ELSE IF taskIndex = 0
     THEN Reply(store, 404, MsgNotFound, NoTask, <<>>)
     ELSE LET updated == UpdatedTask(store[taskIndex], id, body, now)
          IN Reply([store EXCEPT ![taskIndex] = updated], 200, "", updated, <<>>)

PutTask(store, idParam, body, now) ==
  LET id == ParseInt(idParam)
      taskIndex == FindIndex(store, id)
      validation == validateTask(body, TRUE)
  IN IF taskIndex = 0
     THEN Reply(store, 404, MsgNotFound, NoTask, <<>>)
     ELSE IF ~validation.valid
     THEN Reply(store, 400, validation.message, NoTask, <<>>)
     ELSE LET updated == UpdatedTask(store[taskIndex], id, body, now)
          IN Reply([store EXCEPT ![taskIndex] = updated], 200, "", updated, <<>>)

(***************************************************************************)
(* DELETE /tasks/:id                                                       *)
(***************************************************************************)
DeleteTask(store, idParam) ==
  LET id == ParseInt(idParam)
      taskIndex == FindIndex(store, id)
  IN IF taskIndex = 0
     THEN Reply(store, 404, MsgNotFound, NoTask, <<>>)
     ELSE Reply(Splice(store, taskIndex), 200, "", NoTask, <<>>)

(***************************************************************************)
(* Requests: the values a client may send                                  *)
(***************************************************************************)
Body(title, description, completed, priority) ==
  [title |-> title, description |-> description,
   completed |-> completed, priority |-> priority]

\* Bodies that pass validateTask: title and description as sent together,
\* completed either way, priority absent or given
GoodBodies ==
  {Body(td[1], td[2], Bool(c), p) :
     td \in {<<Str(S_A), Str(S_D)>>, <<Str(S_padB), Str(S_E)>>},
     c \in BOOLEAN, p \in {Undefined, Str(S_low)}}

\* One body failing each rule of validateTask
BadBodies ==
  {Body(Str(S_blank), Str(S_D), Bool(FALSE), Undefined),
   Body(Str(S_A), Undefined, Bool(FALSE), Undefined),
   Body(Str(S_A), Str(S_D), Str(S_true), Undefined),
   Body(Str(S_A), Str(S_D), Bool(TRUE), Str(S_HIGH))}

Bodies == GoodBodies \cup BadBodies

\* Every combination of the kinds of value a field may hold: absent, null,
\* empty, blank, of another type, well-formed
TitleValues == {Undefined, Str(<<>>), Str(S_blank), Num(7), Str(S_A)}
DescriptionValues == {Undefined, Str(S_blank), Num(7), Str(S_D)}
CompletedValues == {Undefined, Str(S_true), Bool(TRUE), Bool(FALSE)}
PriorityValues ==
  {Undefined, Null, Str(<<>>), Str(S_HIGH), Str(S_low), Str(S_high)}

AllBodies ==
  [title : TitleValues, description : DescriptionValues,
   completed : CompletedValues, priority : PriorityValues]

\* the :id path segment: the decimal ids, digits followed by a letter, a word
IdParams ==
  {NumToString(i) : i \in 1..MaxId} \cup {<<"1", "x">>, <<"x">>}

\* the :level path segment
LevelParams == {S_low, S_medium, S_high, S_HIGH, S_urgent}

\* the completed and sort query parameters (Undefined: not given)
CompletedParams == {Undefined, Str(S_true), Str(S_false), Str(S_A)}
SortParams == {Undefined, Str(S_oldest), Str(S_newest)}

(***************************************************************************)
(* The state machine                                                       *)
(***************************************************************************)
StartTime == 1

Response(op, r) == [op |-> op, status |-> r.status, error |-> r.error]

\* tasks: the tasks array; clock: the time new Date() reads; issued: the ids
\* tasks have had since startup (history); resp: the last response sent
Init ==
  /\ \E file \in Files : tasks = LoadTasks(file, StartTime)
  /\ clock = StartTime
  /\ issued = Ids(tasks)
  /\ resp = [op |-> "listen", status |-> 0, error |-> ""]

\* time passes between requests
Tick ==
  /\ clock < MaxClock
  /\ clock' = clock + 1
  /\ UNCHANGED <<tasks, issued, resp>>

ListTasks ==
  \E completed \in CompletedParams, sort \in SortParams :
    LET r == GetTasks(tasks, completed, sort)
    IN /\ tasks' = r.tasks
       /\ resp' = Response("GET /tasks", r)
       /\ UNCHANGED <<clock, issued>>

ListByPriority ==
  \E level \in LevelParams :
    LET r == GetTasksByPriority(tasks, level)
    IN /\ tasks' = r.tasks
       /\ resp' = Response("GET /tasks/priority/:level", r)
       /\ UNCHANGED <<clock, issued>>

ReadTask ==
  \E idParam \in IdParams :
    LET r == GetTask(tasks, idParam)
    IN /\ tasks' = r.tasks
       /\ resp' = Response("GET /tasks/:id", r)
       /\ UNCHANGED <<clock, issued>>

Create(bodies, limit) ==
  \E body \in bodies :
    LET r == PostTask(tasks, body, clock)
    IN /\ Len(r.tasks) <= limit
       /\ r.task.id <= MaxId
       /\ tasks' = r.tasks
       /\ issued' = issued \cup Ids(r.tasks)
       /\ resp' = Response("POST /tasks", r)
       /\ UNCHANGED clock

Update(bodies) ==
  \E idParam \in IdParams, body \in bodies :
    LET r == PutTask(tasks, idParam, body, clock)
    IN /\ tasks' = r.tasks
       /\ issued' = issued \cup Ids(r.tasks)
       /\ resp' = Response("PUT /tasks/:id", r)
       /\ UNCHANGED clock

CreateTask == Create(Bodies, MaxTasks)

UpdateTask == Update(Bodies)

RemoveTask ==
  \E idParam \in IdParams :
    LET r == DeleteTask(tasks, idParam)
    IN /\ tasks' = r.tasks
       /\ resp' = Response("DELETE /tasks/:id", r)
       /\ UNCHANGED <<clock, issued>>

Next ==
  \/ Tick
  \/ ListTasks
  \/ ListByPriority
  \/ ReadTask
  \/ CreateTask
  \/ UpdateTask
  \/ RemoveTask

Spec == Init /\ [][Next]_vars

(***************************************************************************)
(* The validation of request bodies: the same handlers, given every        *)
(* combination of field values, over stores of at most MaxTasksV tasks     *)
(***************************************************************************)
MaxTasksV == 1

InitV == Init /\ Len(tasks) <= MaxTasksV

CreateTaskV == Create(AllBodies, MaxTasksV)

UpdateTaskV == Update(AllBodies)

NextV ==
  \/ Tick
  \/ CreateTaskV
  \/ UpdateTaskV
  \/ RemoveTask

SpecV == InitV /\ [][NextV]_vars

(***************************************************************************)
(* Properties                                                              *)
(***************************************************************************)
Priorities == {Str(S_low), Str(S_medium), Str(S_high)}

LastResponse(op, status) == resp.op = op /\ resp.status = status

\* C1: the id a successful POST /tasks assigns is greater than every id
\* issued to a task earlier since startup, deleted tasks included.  Only a
\* successful POST makes the store longer, and its task is the last one.
C1_NewIdAboveEveryIssuedId ==
  [][Len(tasks') = Len(tasks) + 1
       => \A old \in issued : tasks'[Len(tasks')].id > old]_vars

\* C2: no two tasks of the store have the same id, and the id a successful
\* create assigns is (the greatest id of the store, or 0 when it is empty)
\* + 1, an id no task of the store has.
C2_IdsUnique ==
  /\ \A i, j \in DOMAIN tasks : i # j => tasks[i].id # tasks[j].id
  /\ \A body \in Bodies :
       LET r == PostTask(tasks, body, clock)
       IN r.status = 201 =>
            /\ r.task.id \notin Ids(tasks)
            /\ \A i \in DOMAIN tasks : r.task.id > tasks[i].id
            /\ \/ tasks = <<>> /\ r.task.id = 1
               \/ r.task.id - 1 \in Ids(tasks)

\* a create has just added a second task to the store
C2_Witness ==
  /\ LastResponse("POST /tasks", 201)
  /\ Len(tasks) = 2
  /\ tasks[2].id = tasks[1].id + 1

\* C3: a successful PUT /tasks/:id replaces title, description and completed
\* by the body's, sets priority to the body's when present and keeps the
\* prior priority otherwise, keeps id and createdAt, and leaves every other
\* task, the position of the task and the length of the store as they were.
C3_UpdateFrame ==
  \A idParam \in IdParams, body \in Bodies :
    LET r == PutTask(tasks, idParam, body, clock)
    IN r.status = 200 =>
         /\ Len(r.tasks) = Len(tasks)
         /\ \E k \in DOMAIN tasks :
              /\ tasks[k].id = ParseInt(idParam)
              /\ \A j \in DOMAIN tasks : j # k => r.tasks[j] = tasks[j]
              /\ r.tasks[k] = r.task
              /\ r.task.title = body.title
              /\ r.task.description = body.description
              /\ r.task.completed = body.completed
              /\ r.task.priority =
                   IF body.priority # Undefined
                   THEN body.priority
                   ELSE tasks[k].priority
              /\ r.task.id = tasks[k].id
              /\ r.task.createdAt = tasks[k].createdAt

\* an update without priority has rewritten a task loaded from task.json:
\* it has the body's title and still the priority and createdAt of the file
C3_Witness ==
  /\ LastResponse("PUT /tasks/:id", 200)
  /\ clock = 2
  /\ \E k \in DOMAIN tasks :
       /\ tasks[k].title = Str(S_padB)
       /\ tasks[k].description = Str(S_E)
       /\ tasks[k].priority = Str(S_urgent)
       /\ tasks[k].createdAt = Str(ToISOString(1))

\* C4: PUT /tasks/:id with an id that is not in the store answers 404 'Task
\* not found' and leaves the store unchanged whatever the body; a 400 is
\* answered only for an id that is in the store.
C4_UpdateNotFoundFirst ==
  \A idParam \in IdParams, body \in Bodies :
    LET r == PutTask(tasks, idParam, body, clock)
    IN /\ ParseInt(idParam) \notin Ids(tasks) =>
            r.status = 404 /\ r.error = MsgNotFound /\ r.tasks = tasks
       /\ r.status = 400 => ParseInt(idParam) \in Ids(tasks)

\* an update of an id that is not in the non-empty store was answered 404
C4_Witness ==
  /\ LastResponse("PUT /tasks/:id", 404)
  /\ resp.error = MsgNotFound
  /\ tasks # <<>>

\* The rules of C5 as the claim words them: a field is rejected when it is
\* absent, not a string, or made of white space only
BlankOrNoString(v) == v.t # "string" \/ \A i \in DOMAIN v.s : v.s[i] = " "

FirstFailure(body) ==
  IF BlankOrNoString(body.title) THEN MsgTitle
  ELSE IF BlankOrNoString(body.description) THEN MsgDescription
  ELSE IF body.completed \notin {Bool(TRUE), Bool(FALSE)} THEN MsgCompleted
  ELSE IF body.priority # Undefined /\ body.priority \notin Priorities THEN MsgPriority
  ELSE ""

C6_PriorityInEnum ==
  \A i \in DOMAIN tasks : tasks[i].priority \in Priorities

\* C7: after a successful POST /tasks with body F, GET /tasks/:id with the
\* returned id answers 200 with the record the POST returned: title,
\* description and completed of F, priority of F or medium when F has none,
\* and the generated id and createdAt.
C7_CreateThenGet ==
  \A body \in Bodies :
    LET r == PostTask(tasks, body, clock)
    IN r.status = 201 =>
         LET g == GetTask(r.tasks, NumToString(r.task.id))
         IN /\ g.status = 200
            /\ g.tasks = r.tasks
            /\ g.task = r.task
            /\ g.task.title = body.title
            /\ g.task.description = body.description
            /\ g.task.completed = body.completed
            /\ g.task.priority =
                 IF body.priority = Undefined THEN Str(S_medium) ELSE body.priority
            /\ g.task.createdAt = Str(ToISOString(clock))

\* a create without priority has added a task to a store holding another,
\* and it reads back with priority medium
C7_Witness ==
  /\ LastResponse("POST /tasks", 201)
  /\ Len(tasks) = 2
  /\ LET g == GetTask(tasks, NumToString(tasks[2].id))
     IN /\ g.status = 200
        /\ g.task.title = Str(S_padB)
        /\ g.task.priority = Str(S_medium)
        /\ g.task.createdAt = Str(ToISOString(2))

\* C8: DELETE /tasks/:id on an id in the store answers 200, removes that
\* task and no other and keeps the order of the rest, and a GET or DELETE of
\* the same id that follows answers 404; on an id not in the store it
\* answers 404 'Task not found' and leaves the store unchanged.
C8_DeleteThenNotFound ==
  \A idParam \in IdParams :
    LET r == DeleteTask(tasks, idParam)
        id == ParseInt(idParam)
        Other(task) == task.id # id
    IN IF id \in Ids(tasks)
       THEN /\ r.status = 200
            /\ Len(r.tasks) = Len(tasks) - 1
            /\ r.tasks = SelectSeq(tasks, Other)
            /\ GetTask(r.tasks, idParam).status = 404
            /\ DeleteTask(r.tasks, idParam).status = 404
            /\ DeleteTask(r.tasks, idParam).tasks = r.tasks
       ELSE r.status = 404 /\ r.error = MsgNotFound /\ r.tasks = tasks

\* the first of two tasks was deleted: the second remains
C8_Witness ==
  /\ LastResponse("DELETE /tasks/:id", 200)
  /\ Len(tasks) = 1
  /\ tasks[1].id = 1
  /\ issued = {1, 2}

\* C9: GET /tasks with any parameters, GET /tasks/priority/:level and GET
\* /tasks/:id leave the store, contents and order, as it was, also when the
\* list handler sorts its result; the same list request repeated returns
\* the same sequence.
C9_ReadsLeaveStore ==
  /\ \A completed \in CompletedParams, sort \in SortParams :
       LET r == GetTasks(tasks, completed, sort)
       IN r.tasks = tasks /\ GetTasks(r.tasks, completed, sort).list = r.list
  /\ \A level \in LevelParams : GetTasksByPriority(tasks, level).tasks = tasks
  /\ \A idParam \in IdParams : GetTask(tasks, idParam).tasks = tasks

\* a list request was answered from a store of two tasks that is in
\* neither order of createdAt, so that the handler's sort moved elements
C9_Witness ==
  /\ LastResponse("GET /tasks", 200)
  /\ Len(tasks) = 2
  /\ GetTasks(tasks, Undefined, Undefined).list # tasks
  /\ tasks[1].createdAt # tasks[2].createdAt

\* the instant of a task's createdAt
CreatedAtOf(task) == DateParse(task.createdAt.s)

====
